---- MODULE Spec2Model ----
(***************************************************************************)
(* The PoI importer: the import_pois management command (handle, the       *)
(* per-format importers, process_dataframe, parse_ratings) and the PoI     *)
(* model's save(), as a state machine over the PoI table.                  *)
(*                                                                         *)
(* Text is a sequence of one-character strings.  A Python float is a       *)
(* decimal [k, m, e] standing for m / 10^e (k = "num"), or NaN / infinity. *)
(* A DataFrame cell is a tagged value [t, s, m, e, l].                     *)
(***************************************************************************)
EXTENDS Integers, Sequences, FiniteSets, TLC

\* ------------------------------------------------------------------ bounds
MaxFiles == 2
MaxRows == 2
MaxLen == 4

\* ------------------------------------------------------- program constants
ProgressEvery == 100
MaxDigits == 10
DecimalPlaces == 7

\* ------------------------------------------------------------------- text
DigitChars == <<"0", "1", "2", "3", "4", "5", "6", "7", "8", "9">>

IsDigit(c) == \E i \in 1..10 : DigitChars[i] = c

DigitVal(c) == (CHOOSE i \in 1..10 : DigitChars[i] = c) - 1

IsSpace(c) == c = " "

UpperChars ==
  <<"A", "B", "C", "D", "E", "F", "G", "H", "I", "J", "K", "L", "M",
    "N", "O", "P", "Q", "R", "S", "T", "U", "V", "W", "X", "Y", "Z">>

LowerChars ==
  <<"a", "b", "c", "d", "e", "f", "g", "h", "i", "j", "k", "l", "m",
    "n", "o", "p", "q", "r", "s", "t", "u", "v", "w", "x", "y", "z">>

Lower(c) ==
  IF \E i \in 1..26 : UpperChars[i] = c
    THEN LowerChars[CHOOSE i \in 1..26 : UpperChars[i] = c]
    ELSE c

LowerStr(s) == [i \in 1..Len(s) |-> Lower(s[i])]

RECURSIVE LStrip(_)
LStrip(s) == IF s # <<>> /\ IsSpace(Head(s)) THEN LStrip(Tail(s)) ELSE s

RECURSIVE RStrip(_)
RStrip(s) ==
  IF s # <<>> /\ IsSpace(s[Len(s)]) THEN RStrip(SubSeq(s, 1, Len(s) - 1)) ELSE s

\* str.strip()
Strip(s) == RStrip(LStrip(s))

\* str.split(sep): the pieces between the separators, empty pieces kept
RECURSIVE SplitOn(_, _, _)
SplitOn(s, sep, cur) ==
  IF s = <<>> THEN <<cur>>
  ELSE IF Head(s) = sep THEN <<cur>> \o SplitOn(Tail(s), sep, <<>>)
  ELSE SplitOn(Tail(s), sep, Append(cur, Head(s)))

Split(s, sep) == SplitOn(s, sep, <<>>)

RECURSIVE Pow10(_)
Pow10(n) == IF n = 0 THEN 1 ELSE 10 * Pow10(n - 1)

RECURSIVE DigitsValue(_)
DigitsValue(s) ==
  IF s = <<>> THEN 0 ELSE 10 * DigitsValue(SubSeq(s, 1, Len(s) - 1)) + DigitVal(s[Len(s)])

AllDigits(s) == \A i \in 1..Len(s) : IsDigit(s[i])

RECURSIVE Digits(_)
Digits(n) == IF n < 10 THEN <<DigitChars[n + 1]>> ELSE Append(Digits(n \div 10), DigitChars[(n % 10) + 1])

\* ----------------------------------------------------------------- floats
Flt(m, e) == [k |-> "num", m |-> m, e |-> e]
NaNF == [k |-> "nan", m |-> 0, e |-> 0]
InfF == [k |-> "inf", m |-> 0, e |-> 0]

\* one value, one representation: no trailing zero in the fraction
RECURSIVE Norm(_)
Norm(x) ==
  IF x.k = "num" /\ x.e > 0 /\ x.m % 10 = 0 THEN Norm(Flt(x.m \div 10, x.e - 1)) ELSE x

Dots(s) == {i \in 1..Len(s) : s[i] = "."}

\* the decimal literals float() accepts: digits with at most one point and
\* at least one digit
IsDecimalLiteral(s) ==
  /\ s # <<>>
  /\ \A i \in 1..Len(s) : IsDigit(s[i]) \/ s[i] = "."
  /\ Cardinality(Dots(s)) <= 1
  /\ \E i \in 1..Len(s) : IsDigit(s[i])

DecimalValue(s) ==
  IF Dots(s) = {} THEN Flt(DigitsValue(s), 0)
  ELSE LET d == CHOOSE i \in Dots(s) : TRUE
           frac == SubSeq(s, d + 1, Len(s))
       IN Norm(Flt(DigitsValue(SubSeq(s, 1, d - 1) \o frac), Len(frac)))

Fail == [ok |-> FALSE, v |-> NaNF]
Ok(v) == [ok |-> TRUE, v |-> v]

\* float(str): surrounding whitespace ignored; "nan", "inf", "infinity" in
\* any case are floats; anything else that is no literal raises ValueError
FloatOfStr(s) ==
  LET t == LowerStr(Strip(s))
  IN IF IsDecimalLiteral(t) THEN Ok(DecimalValue(t))
     ELSE IF t = <<"n", "a", "n">> THEN Ok(NaNF)
     ELSE IF t = <<"i", "n", "f">> \/ t = <<"i", "n", "f", "i", "n", "i", "t", "y">> THEN Ok(InfF)
     ELSE Fail

\* ------------------------------------------------------- DataFrame cells
\* t: "absent" (the column is not in the frame), "none", "str", "int",
\* "float" (NaN included: the marker of a missing cell), "list"
AbsentC == [t |-> "absent", s |-> <<>>, f |-> NaNF, l |-> <<>>]
NoneC == [t |-> "none", s |-> <<>>, f |-> NaNF, l |-> <<>>]
NaNC == [t |-> "float", s |-> <<>>, f |-> NaNF, l |-> <<>>]
StrC(s) == [t |-> "str", s |-> s, f |-> NaNF, l |-> <<>>]
IntC(n) == [t |-> "int", s |-> <<>>, f |-> Flt(n, 0), l |-> <<>>]
FloatC(m, e) == [t |-> "float", s |-> <<>>, f |-> Norm(Flt(m, e)), l |-> <<>>]
ListC(l) == [t |-> "list", s |-> <<>>, f |-> NaNF, l |-> l]
\* a JSON object {"latitude": ..., "longitude": ...}; an absent entry is a key
\* the object does not have
DictC(la, lo) == [t |-> "dict", s |-> <<>>, f |-> NaNF, l |-> <<la, lo>>]

\* row.get(col, default)
Get(row, col, default) == IF row[col].t = "absent" THEN default ELSE row[col]

\* "x is None or (hasattr(x, '__len__') and len(x) == 0)"
IsMissing(v) ==
  \/ v.t = "none"
  \/ v.t = "str" /\ Len(v.s) = 0
  \/ v.t = "list" /\ Len(v.l) = 0

\* pd.isna on a scalar
IsNa(v) == v.t = "none" \/ (v.t = "float" /\ v.f.k = "nan")

FailInt == [ok |-> FALSE, v |-> 0]
OkInt(n) == [ok |-> TRUE, v |-> n]

\* int(x)
IntOf(v) ==
  CASE v.t = "int" -> OkInt(v.f.m)
    [] v.t = "float" -> IF v.f.k = "num" THEN OkInt(v.f.m \div Pow10(v.f.e)) ELSE FailInt
    [] v.t = "str" ->
         LET t == Strip(v.s)
         IN IF t # <<>> /\ AllDigits(t) THEN OkInt(DigitsValue(t)) ELSE FailInt
    [] OTHER -> FailInt

RECURSIVE PadLeft(_, _)
PadLeft(s, n) == IF Len(s) >= n THEN s ELSE PadLeft(<<"0">> \o s, n)

\* str(x)
StrOf(v) ==
  CASE v.t = "str" -> v.s
    [] v.t = "int" -> Digits(v.f.m)
    [] v.t = "float" /\ v.f.k = "nan" -> <<"n", "a", "n">>
    [] v.t = "float" /\ v.f.k = "inf" -> <<"i", "n", "f">>
    [] v.t = "float" /\ v.f.k = "num" ->
         Digits(v.f.m \div Pow10(v.f.e)) \o <<".">> \o
         (IF v.f.e = 0 THEN <<"0">> ELSE PadLeft(Digits(v.f.m % Pow10(v.f.e)), v.f.e))
    [] v.t = "none" -> <<"N", "o", "n", "e">>

\* float(x)
FloatOf(v) ==
  CASE v.t = "int" -> Ok(v.f)
    [] v.t = "float" -> Ok(v.f)
    [] v.t = "str" -> FloatOfStr(v.s)
    [] OTHER -> Fail

\* ---------------------------------------------------------- parse_ratings
SeqRange(s) == {s[i] : i \in 1..Len(s)}

RECURSIVE SelectOk(_)
SelectOk(rs) ==
  IF rs = <<>> THEN <<>>
  ELSE IF Head(rs).ok THEN <<Head(rs).v>> \o SelectOk(Tail(rs))
  ELSE SelectOk(Tail(rs))

\* the list branch: None and NaN items skipped, items float() refuses skipped
ParseItems(l) ==
  SelectOk([i \in 1..Len(l) |-> IF IsNa(l[i]) THEN Fail ELSE FloatOf(l[i])])

RECURSIVE NonEmpty(_)
NonEmpty(ps) ==
  IF ps = <<>> THEN <<>>
  ELSE IF Head(ps) # <<>> THEN <<Head(ps)>> \o NonEmpty(Tail(ps))
  ELSE NonEmpty(Tail(ps))

Unbrace(s) ==
  IF s # <<>> /\ Head(s) = "{" /\ s[Len(s)] = "}" THEN SubSeq(s, 2, Len(s) - 1) ELSE s

\* the pieces the comprehension converts: split on commas, stripped, empty dropped
Pieces(ratings_str) ==
  LET ps == Split(ratings_str, ",")
  IN NonEmpty([i \in 1..Len(ps) |-> Strip(ps[i])])

\* (a variant that drops the pieces float() refuses, one by one)
ParseStringPerItem(s) ==
  LET ratings_str == Unbrace(Strip(s))
  IN SelectOk([i \in 1..Len(Pieces(ratings_str)) |-> FloatOfStr(Pieces(ratings_str)[i])])

\* the string branch: one ValueError in the comprehension gives []
ParseString(s) ==
  LET ratings_str == Unbrace(Strip(s))
      fs == [i \in 1..Len(Pieces(ratings_str)) |-> FloatOfStr(Pieces(ratings_str)[i])]
  IN IF ratings_str = <<>> THEN <<>>
     ELSE IF \A i \in 1..Len(fs) : fs[i].ok THEN [i \in 1..Len(fs) |-> fs[i].v]
     ELSE <<>>

parse_ratings(ratings_data) ==
  CASE ratings_data.t = "none" -> <<>>
    [] ratings_data.t = "list" -> ParseItems(ratings_data.l)
    [] ratings_data.t = "str" -> ParseString(ratings_data.s)
    [] OTHER -> IF FloatOf(ratings_data).ok THEN <<FloatOf(ratings_data).v>> ELSE <<>>

\* ------------------------------------------------------------- the model
RECURSIVE GCD(_, _)
GCD(a, b) == IF b = 0 THEN a ELSE GCD(b, a % b)

RECURSIVE MaxExp(_)
MaxExp(rs) ==
  IF rs = <<>> THEN 0
  ELSE IF Head(rs).e > MaxExp(Tail(rs)) THEN Head(rs).e ELSE MaxExp(Tail(rs))

RECURSIVE SumAt(_, _)
SumAt(rs, e) ==
  IF rs = <<>> THEN 0 ELSE Head(rs).m * Pow10(e - Head(rs).e) + SumAt(Tail(rs), e)

NoAvg == <<>>

\* sum(ratings) / len(ratings) as a fraction <<numerator, denominator>> in
\* lowest terms; <<0, 0>> is NaN and <<1, 0>> infinity
Mean(rs) ==
  IF \E i \in 1..Len(rs) : rs[i].k = "nan" THEN <<0, 0>>
  ELSE IF \E i \in 1..Len(rs) : rs[i].k = "inf" THEN <<1, 0>>
  ELSE LET e == MaxExp(rs)
           num == SumAt(rs, e)
           den == Pow10(e) * Len(rs)
           g == GCD(num, den)
       IN <<num \div g, den \div g>>

\* (a variant that averages the new mean with the stored one)
SaveAvgRunning(ratings, avg_rating) ==
  IF ratings = <<>> THEN avg_rating
  ELSE IF avg_rating = NoAvg \/ avg_rating[2] = 0 THEN Mean(ratings)
  ELSE LET m == Mean(ratings)
           num == m[1] * avg_rating[2] + avg_rating[1] * m[2]
           den == 2 * m[2] * avg_rating[2]
       IN <<num \div GCD(num, den), den \div GCD(num, den)>>

\* PoI.save: avg_rating is assigned only when ratings is truthy
SaveAvg(ratings, avg_rating) == IF ratings # <<>> THEN Mean(ratings) ELSE avg_rating

\* DecimalField(max_digits, decimal_places): a float that is not finite, or
\* has more than max_digits - decimal_places integer digits, is refused; the
\* others are stored rounded half-even to decimal_places, counted in units of
\* 10^-decimal_places
RoundHalfEven(m, d) ==
  LET q == m \div d
      r == m % d
  IN IF 2 * r > d \/ (2 * r = d /\ q % 2 = 1) THEN q + 1 ELSE q

ToDecimal(x) ==
  IF x.k # "num" THEN FailInt
  ELSE IF x.m \div Pow10(x.e) >= Pow10(MaxDigits - DecimalPlaces) THEN FailInt
  ELSE IF x.e <= DecimalPlaces THEN OkInt(x.m * Pow10(DecimalPlaces - x.e))
  ELSE OkInt(RoundHalfEven(x.m, Pow10(x.e - DecimalPlaces)))

\* (a variant that never looks for the row: it always creates one)
update_or_create_insert(table, poi_id, d) ==
  IF ~ToDecimal(d.latitude).ok \/ ~ToDecimal(d.longitude).ok
    THEN [res |-> "ValidationError", table |-> table]
  ELSE [res |-> "ok",
        table |-> Append(table,
          [poi_id |-> poi_id, name |-> d.name, category |-> d.category,
           latitude |-> ToDecimal(d.latitude).v, longitude |-> ToDecimal(d.longitude).v,
           ratings |-> d.ratings, avg_rating |-> SaveAvg(d.ratings, NoAvg)])]

Matches(table, poi_id) == {i \in 1..Len(table) : table[i].poi_id = poi_id}

\* PoI.objects.update_or_create(poi_id=..., defaults=...): the row with this
\* poi_id gets the defaults and is saved; with no such row one is created
\* and saved.  res is "ok" or the exception raised, and then nothing is
\* written.
update_or_create(table, poi_id, d) ==
  LET hits == Matches(table, poi_id)
      lat == ToDecimal(d.latitude)
      lon == ToDecimal(d.longitude)
      fields(avg) == [poi_id |-> poi_id, name |-> d.name, category |-> d.category,
                      latitude |-> lat.v, longitude |-> lon.v, ratings |-> d.ratings,
                      avg_rating |-> SaveAvg(d.ratings, avg)]
  IN IF Cardinality(hits) > 1 THEN [res |-> "MultipleObjectsReturned", table |-> table]
     ELSE IF ~lat.ok \/ ~lon.ok THEN [res |-> "ValidationError", table |-> table]
     ELSE IF hits = {} THEN [res |-> "ok", table |-> Append(table, fields(NoAvg))]
     ELSE LET i == CHOOSE i \in hits : TRUE
          IN [res |-> "ok", table |-> [table EXCEPT ![i] = fields(table[i].avg_rating)]]

\* --------------------------------------------------- one loop iteration
NoDefaults == [name |-> <<>>, category |-> <<>>, latitude |-> NaNF, longitude |-> NaNF,
               ratings |-> <<>>]

\* The body of the for loop of process_dataframe on one row against the
\* table: kind is "skip" (continue, nothing written), "warn" (a warning
\* line, continue), "error" (except Exception), "duplicate" (except
\* IntegrityError) or "success".
RowOutcome(table, row) ==
  LET poi_id_val == Get(row, "poi_id", NoneC)
      name_val == Get(row, "name", NoneC)
      category_val == Get(row, "category", NoneC)
      poi_id == IntOf(poi_id_val)
      lat == FloatOf(row.latitude)
      lon == FloatOf(row.longitude)
      d == [name |-> Strip(StrOf(name_val)), category |-> Strip(StrOf(category_val)),
            latitude |-> lat.v, longitude |-> lon.v,
            ratings |-> parse_ratings(Get(row, "ratings", ListC(<<>>)))]
      r == update_or_create(table, poi_id.v, d)
      out(kind) == [kind |-> kind, table |-> table, poi_id |-> 0, d |-> NoDefaults]
  IN IF IsMissing(poi_id_val) \/ IsMissing(name_val) \/ IsMissing(category_val)
       THEN out("skip")
     ELSE IF ~poi_id.ok THEN out("error")
     ELSE IF row.latitude.t = "absent" \/ row.longitude.t = "absent" THEN out("error")
     ELSE IF IsNa(row.latitude) \/ IsNa(row.longitude) THEN out("warn")
     ELSE IF ~lat.ok \/ ~lon.ok THEN out("warn")
     ELSE IF r.res = "ok"
       THEN [kind |-> "success", table |-> r.table, poi_id |-> poi_id.v, d |-> d]
     ELSE IF r.res = "IntegrityError" THEN out("duplicate")
     ELSE out("error")

\* ------------------------------------------------------------ the inputs
Txt(str) == StrC(str)

MkRow(i, n, c, la, lo, r) ==
  [poi_id |-> i, name |-> n, category |-> c, latitude |-> la, longitude |-> lo, ratings |-> r]

Cafe == Txt(<<"C", "a", "f", "e">>)
Food == Txt(<<"F", "o", "o", "d">>)
BracedRatings == <<"{", "1", ".", "0", ",", " ", "2", ".", "5", ",", " ", "b", "a", "d", ",", " ", "3", "}">>

\* the rows the frames are built from, in canonical column names
Rows ==
  { \* well-formed rows
    MkRow(IntC(1), Cafe, Food, FloatC(15, 1), IntC(2), ListC(<<IntC(2), NoneC, FloatC(45, 1)>>)),
    MkRow(IntC(1), Txt(<<" ", "B", "a", "r", " ">>), Food, Txt(<<"1", ".", "5">>), IntC(2),
          Txt(BracedRatings)),
    MkRow(Txt(<<" ", "2">>), Txt(<<"Z", "o", "o">>), Txt(<<"F", "u", "n">>),
          FloatC(123456785, 8), IntC(2), Txt(<<"3", ",", "4">>)),
    \* name or category blank, missing or a NaN cell; poi_id a NaN cell
    MkRow(IntC(1), Txt(<<" ", " ">>), Food, IntC(1), IntC(1), IntC(4)),
    MkRow(IntC(2), NaNC, Food, IntC(1), IntC(1), NoneC),
    MkRow(NaNC, Cafe, Food, IntC(1), IntC(1), NoneC),
    MkRow(IntC(1), Cafe, Txt(<<>>), IntC(1), IntC(1), NoneC),
    MkRow(IntC(1), NoneC, Food, IntC(1), IntC(1), NoneC),
    \* coordinates a NaN cell, text that is no number, the text "NaN", or
    \* the column not in the frame
    MkRow(IntC(1), Cafe, Food, NaNC, IntC(1), NoneC),
    MkRow(IntC(1), Cafe, Food, IntC(1), Txt(<<"b", "a", "d">>), NoneC),
    MkRow(IntC(1), Cafe, Food, Txt(<<"N", "a", "N">>), IntC(1), NoneC),
    MkRow(IntC(1), Cafe, Food, AbsentC, IntC(1), AbsentC)
  }

Columns == {"poi_id", "name", "category", "latitude", "longitude", "ratings"}

\* a frame has the same columns in every row
SameColumns(rows) ==
  \A i, j \in 1..Len(rows) : \A c \in Columns :
    (rows[i][c].t = "absent") <=> (rows[j][c].t = "absent")

Frames == {rows \in UNION {[1..n -> Rows] : n \in 0..MaxRows} : SameColumns(rows)}

Unread == [status |-> "unread", rows |-> <<>>]
NotFound == [status |-> "missing", rows |-> <<>>]
Corrupt == [status |-> "corrupt", rows |-> <<>>]
Decoded(rows) == [status |-> "ok", rows |-> rows]

\* the column names of the three formats, by canonical name
csv_columns ==
  [poi_id |-> "poi_id", name |-> "poi_name", category |-> "poi_category",
   latitude |-> "poi_latitude", longitude |-> "poi_longitude", ratings |-> "poi_ratings"]

xml_columns ==
  [poi_id |-> "pid", name |-> "pname", category |-> "pcategory",
   latitude |-> "platitude", longitude |-> "plongitude", ratings |-> "pratings"]

json_columns == [poi_id |-> "id", name |-> "name", category |-> "category", ratings |-> "ratings"]

Range(f) == {f[x] : x \in DOMAIN f}

\* the row as the file of this format has it
AsWritten(ext, row) ==
  CASE ext = <<"c", "s", "v">> ->
         [n \in Range(csv_columns) |-> row[CHOOSE c \in Columns : csv_columns[c] = n]]
    [] ext = <<"x", "m", "l">> ->
         [n \in Range(xml_columns) |-> row[CHOOSE c \in Columns : xml_columns[c] = n]]
    [] ext = <<"j", "s", "o", "n">> ->
         [n \in Range(json_columns) \cup {"coordinates"} |->
            IF n = "coordinates"
              THEN (IF row.latitude.t = "absent" /\ row.longitude.t = "absent"
                      THEN AbsentC ELSE DictC(row.latitude, row.longitude))
              ELSE row[CHOOSE c \in DOMAIN json_columns : json_columns[c] = n]]

\* what reading and decoding a file of this format can give
Contents(ext) ==
  {NotFound, Corrupt} \cup
  {Decoded([i \in 1..Len(rows) |-> AsWritten(ext, rows[i])]) : rows \in Frames}

\* x.get(key) if isinstance(x, dict) else None
Coordinate(x, key) ==
  IF x.t = "dict" /\ x.l[key].t # "absent" THEN x.l[key] ELSE NoneC

\* the frame each importer hands to process_dataframe: the columns of the
\* format renamed to the canonical ones, and for JSON the coordinates
\* column split in two
Normalize(ext, rows) ==
  [i \in 1..Len(rows) |->
     CASE ext = <<"c", "s", "v">> -> [c \in Columns |-> rows[i][csv_columns[c]]]
       [] ext = <<"x", "m", "l">> -> [c \in Columns |-> rows[i][xml_columns[c]]]
       [] ext = <<"j", "s", "o", "n">> ->
            [c \in Columns |->
               IF c \in {"latitude", "longitude"}
                 THEN (IF rows[i].coordinates.t = "absent" THEN AbsentC
                       ELSE Coordinate(rows[i].coordinates, IF c = "latitude" THEN 1 ELSE 2))
                 ELSE rows[i][json_columns[c]]]]

Paths ==
  { <<"a", ".", "c", "s", "v">>,
    <<"b", ".", "J", "S", "O", "N">>,
    <<"c", ".", "x", "m", "l">>,
    <<"d", ".", "t", "x", "t">> }

ArgLists == UNION {[1..n -> Paths] : n \in 1..MaxFiles}

\* ------------------------------------------------------------- the state
VARIABLES
  store,            \* the PoI table: a sequence of records
  pc,               \* "idle", "files" (the loop of handle), "rows" (the loop of process_dataframe)
  file_paths,       \* the paths the loop of handle has not started yet
  reset,            \* the --reset option of the run
  fs,               \* path -> what this run has read from it (Unread before)
  file_status,      \* what reading the current path gave: "ok", "missing", "corrupt", "unsupported"
  df,               \* the rows of the frame being processed
  index,            \* rows of df already visited
  success_count,
  error_count,
  duplicate_count,
  out,              \* lines written since handle took the current path, counted by kind
  prior,            \* history: the records of the table at the start of the run (after
                    \* --reset) whose poi_id no row of the run has upserted
  touched,          \* history: the poi_ids upserted in this run
  last,             \* history: poi_id -> the last row upserted for the stored record
  again,            \* history: the path after the current one is the same path
  prev,             \* history: the table and success count at the summary of the
                    \* path before, when it was the same path
  ratings_data,     \* the text given to parse_ratings
  parsed            \* what parse_ratings returned for it, once called

import_vars == <<store, pc, file_paths, reset, fs, file_status, df, index, success_count,
                 error_count, duplicate_count, out, prior, touched, last, again, prev>>

ratings_vars == <<ratings_data, parsed>>

vars == <<import_vars, ratings_vars>>

Ids == {1, 2}
NoRow == MkRow(NoneC, NoneC, NoneC, NoneC, NoneC, NoneC)
NoLast == [i \in Ids |-> NoRow]
NoPrev == [valid |-> FALSE, store |-> <<>>, success |-> 0]
NotCalled == [done |-> FALSE, v |-> <<>>]
NoOut == [warning |-> 0, row_error |-> 0, file_error |-> 0, summary |-> 0, progress |-> 0]

Init ==
  /\ store = <<>>
  /\ pc = "idle"
  /\ file_paths = <<>>
  /\ reset = FALSE
  /\ fs = [p \in Paths |-> Unread]
  /\ file_status = "none"
  /\ df = <<>>
  /\ index = 0
  /\ success_count = 0
  /\ error_count = 0
  /\ duplicate_count = 0
  /\ out = NoOut
  /\ prior = <<>>
  /\ touched = {}
  /\ last = NoLast
  /\ again = FALSE
  /\ prev = NoPrev
  /\ ratings_data = <<>>
  /\ parsed = NotCalled

\* file_path.split('.')[-1].lower()
file_extension(file_path) ==
  LET parts == Split(file_path, ".") IN LowerStr(parts[Len(parts)])

\* (a variant in which --reset deletes nothing)
AfterResetKeeps(table, r) == table

\* "if kwargs.get('reset'): PoI.objects.all().delete()"
AfterReset(table, r) == IF r THEN <<>> ELSE table

\* handle, up to its loop: the options are read and --reset empties the table
Handle ==
  /\ pc = "idle"
  /\ \E paths \in ArgLists, r \in BOOLEAN :
       /\ file_paths' = paths
       /\ reset' = r
       /\ store' = AfterReset(store, r)
       /\ prior' = IF r THEN <<>> ELSE store
       /\ last' = IF r THEN NoLast ELSE last
  /\ pc' = "files"
  /\ fs' = [p \in Paths |-> Unread]
  /\ file_status' = "none"
  /\ out' = NoOut
  /\ touched' = {}
  /\ again' = FALSE
  /\ prev' = NoPrev
  /\ df' = <<>>
  /\ index' = 0
  /\ success_count' = 0
  /\ error_count' = 0
  /\ duplicate_count' = 0

\* the file is read once in a run; a path met again holds what it held
CanRead(path) == IF fs[path] = Unread THEN Contents(file_extension(path)) ELSE {fs[path]}

\* what is kept of the files read: only what a path still to come will need
Remember(path, content) ==
  [p \in Paths |-> IF \E i \in 2..Len(file_paths) : file_paths[i] = p
                   THEN (IF p = path THEN content ELSE fs[p])
                   ELSE Unread]

SamePathNext == Len(file_paths) >= 2 /\ file_paths[2] = file_paths[1]

\* (a variant in which the exception leaves handle)
AfterFileErrorEscapes == "idle"

\* where control is after the importer wrote its error line: the except
\* clause ends, the importer returns, the loop of handle takes the next path
AfterFileError == "files"

\* import_csv / import_json / import_xml: a failure to read or decode the
\* file writes one error line and the loop of handle goes on; a decoded
\* frame goes to process_dataframe
Import(ext) ==
  /\ pc = "files"
  /\ file_paths # <<>>
  /\ file_extension(Head(file_paths)) = ext
  /\ \E content \in CanRead(Head(file_paths)) :
       /\ fs' = Remember(Head(file_paths), content)
       /\ file_status' = content.status
       /\ IF content.status = "ok"
            THEN /\ pc' = "rows"
                 /\ df' = Normalize(ext, content.rows)
                 /\ out' = NoOut
                 /\ again' = SamePathNext
                 /\ prev' = prev
            ELSE /\ pc' = AfterFileError
                 /\ df' = <<>>
                 /\ out' = [NoOut EXCEPT !.file_error = 1]
                 /\ again' = FALSE
                 /\ prev' = NoPrev
  /\ file_paths' = Tail(file_paths)
  /\ index' = 0
  /\ success_count' = 0
  /\ error_count' = 0
  /\ duplicate_count' = 0
  /\ UNCHANGED <<store, reset, prior, touched, last>>

import_csv == Import(<<"c", "s", "v">>)

import_json == Import(<<"j", "s", "o", "n">>)

import_xml == Import(<<"x", "m", "l">>)

Supported == {<<"c", "s", "v">>, <<"j", "s", "o", "n">>, <<"x", "m", "l">>}

\* the else branch of handle: "Unsupported file format"
Unsupported ==
  /\ pc = "files"
  /\ file_paths # <<>>
  /\ file_extension(Head(file_paths)) \notin Supported
  /\ out' = [NoOut EXCEPT !.file_error = 1]
  /\ fs' = Remember(Head(file_paths), fs[Head(file_paths)])
  /\ file_status' = "unsupported"
  /\ file_paths' = Tail(file_paths)
  /\ again' = FALSE
  /\ prev' = NoPrev
  /\ UNCHANGED <<store, pc, reset, df, index, success_count, error_count,
                 duplicate_count, prior, touched, last>>

RECURSIVE Without(_, _)
Without(table, poi_id) ==
  IF table = <<>> THEN <<>>
  ELSE IF Head(table).poi_id = poi_id THEN Without(Tail(table), poi_id)
  ELSE <<Head(table)>> \o Without(Tail(table), poi_id)

\* (a variant in which the first exception ends the loop)
NextIndexStopsAtError(kind) == IF kind = "error" THEN Len(df) ELSE index + 1

\* the for loop goes to the next row whatever the iteration did: continue,
\* an exception caught, or the end of the body
NextIndex(kind) == index + 1

\* one iteration of the loop of process_dataframe
ProcessRow ==
  /\ pc = "rows"
  /\ index < Len(df)
  /\ LET o == RowOutcome(store, df[index + 1])
         k == o.kind
     IN /\ store' = o.table
        /\ success_count' = IF k = "success" THEN success_count + 1 ELSE success_count
        /\ duplicate_count' = IF k = "duplicate" THEN duplicate_count + 1 ELSE duplicate_count
        /\ error_count' = IF k = "error" THEN error_count + 1 ELSE error_count
        /\ out' = [out EXCEPT
                     !.warning = IF k = "warn" THEN @ + 1 ELSE @,
                     !.row_error = IF k = "error" THEN @ + 1 ELSE @,
                     !.progress = IF k = "success" /\ (success_count + 1) % ProgressEvery = 0
                                  THEN @ + 1 ELSE @]
        /\ touched' = IF k = "success" THEN touched \cup {o.poi_id} ELSE touched
        /\ prior' = IF k = "success" THEN Without(prior, o.poi_id) ELSE prior
        /\ last' = IF k = "success" THEN [last EXCEPT ![o.poi_id] = df[index + 1]] ELSE last
        /\ index' = NextIndex(k)
  /\ UNCHANGED <<pc, file_paths, reset, fs, file_status, df, again, prev>>

\* the loop of process_dataframe is over: the summary line is written,
\* process_dataframe returns (its frame and counters are gone) and handle goes
\* to the next path
Summary ==
  /\ pc = "rows"
  /\ index = Len(df)
  /\ out' = [out EXCEPT !.summary = @ + 1]
  /\ pc' = "files"
  /\ prev' = IF again THEN [valid |-> TRUE, store |-> store, success |-> success_count]
             ELSE NoPrev
  /\ df' = <<>>
  /\ index' = 0
  /\ success_count' = 0
  /\ error_count' = 0
  /\ duplicate_count' = 0
  /\ again' = FALSE
  /\ UNCHANGED <<store, file_paths, reset, fs, file_status, prior, touched, last>>

\* handle returns: the run is over
Return ==
  /\ pc = "files"
  /\ file_paths = <<>>
  /\ pc' = "idle"
  /\ reset' = FALSE
  /\ fs' = [p \in Paths |-> Unread]
  /\ file_status' = "none"
  /\ out' = NoOut
  /\ prior' = <<>>
  /\ touched' = {}
  /\ prev' = NoPrev
  /\ UNCHANGED <<store, file_paths, df, index, success_count, error_count,
                 duplicate_count, last, again>>

Next ==
  \/ Handle /\ UNCHANGED ratings_vars
  \/ import_csv /\ UNCHANGED ratings_vars
  \/ import_json /\ UNCHANGED ratings_vars
  \/ import_xml /\ UNCHANGED ratings_vars
  \/ Unsupported /\ UNCHANGED ratings_vars
  \/ ProcessRow /\ UNCHANGED ratings_vars
  \/ Summary /\ UNCHANGED ratings_vars
  \/ Return /\ UNCHANGED ratings_vars

Spec == Init /\ [][Next]_vars

\* ------------------------------------------- parse_ratings on its own
RatingAlphabet == {"{", "}", ",", " ", "1", ".", "b"}

RatingTexts ==
  UNION {[1..n -> RatingAlphabet] : n \in 0..MaxLen}
    \cup {BracedRatings,
          <<"{", "1", ".", "0", ",", "2", ".", "5", ",", "3", "}">>,
          <<" ", "{", "2", ",", ",", "n", "a", "n", "}", " ">>}

InitRatings ==
  /\ store = <<>>
  /\ pc = "idle"
  /\ file_paths = <<>>
  /\ reset = FALSE
  /\ fs = [p \in Paths |-> Unread]
  /\ file_status = "none"
  /\ df = <<>>
  /\ index = 0
  /\ success_count = 0
  /\ error_count = 0
  /\ duplicate_count = 0
  /\ out = NoOut
  /\ prior = <<>>
  /\ touched = {}
  /\ last = NoLast
  /\ again = FALSE
  /\ prev = NoPrev
  /\ ratings_data \in RatingTexts
  /\ parsed = NotCalled

\* the call parse_ratings(ratings_data) on a str
CallParseRatings ==
  /\ ~parsed.done
  /\ parsed' = [done |-> TRUE, v |-> parse_ratings(StrC(ratings_data))]
  /\ UNCHANGED <<ratings_data, import_vars>>

NextRatings == CallParseRatings

SpecRatings == InitRatings /\ [][NextRatings]_vars

\* ------------------------------------------------------------ the claims
Records == {store[i] : i \in 1..Len(store)}

Required == {"poi_id", "name", "category"}

\* a cell that holds no value: the column is not there, None, or the NaN a
\* decoder leaves for an empty cell
NoValue(v) == v.t \in {"absent", "none"} \/ (v.t = "float" /\ v.f.k = "nan")

Empty(v) == (v.t = "str" /\ v.s = <<>>) \/ (v.t = "list" /\ v.l = <<>>)

Blank(v) == v.t = "str" /\ \A i \in 1..Len(v.s) : v.s[i] = " "

LacksRequired(row) == \E c \in Required : NoValue(row[c]) \/ Empty(row[c])

\* a coordinate that is missing, a NaN marker (the text "NaN" too) or not a number
BadCoordinate(v) ==
  \/ NoValue(v)
  \/ v.t = "list"
  \/ v.t = "str" /\ (~FloatOfStr(v.s).ok \/ FloatOfStr(v.s).v.k = "nan")

AtRow == pc = "rows" /\ index < Len(df)

CountersUnchanged ==
  /\ success_count' = success_count
  /\ duplicate_count' = duplicate_count
  /\ error_count' = error_count

\* C1: every stored record has avg_rating equal to the mean of its ratings,
\* and no avg_rating when its ratings are empty.
AvgRatingIsMeanOfRatings ==
  \A r \in Records :
    IF r.ratings = <<>> THEN r.avg_rating = NoAvg ELSE r.avg_rating = Mean(r.ratings)

\* C2: every stored record has a non-empty trimmed name and category, and
\* the row it was last written from had a name, a category and coordinates
\* that were present and not blank.
PersistedRecordsAreValid ==
  \A r \in Records :
    /\ r.name # <<>> /\ r.name = Strip(r.name)
    /\ r.category # <<>> /\ r.category = Strip(r.category)
    /\ \A c \in {"name", "category"} :
         ~NoValue(last[r.poi_id][c]) /\ ~Empty(last[r.poi_id][c]) /\ ~Blank(last[r.poi_id][c])
    /\ \A c \in {"latitude", "longitude"} : ~NoValue(last[r.poi_id][c])

\* C3: a row in which poi_id, name or category is missing is skipped
\* silently: no counter changes, no line is written, the table is unchanged.
MissingRequiredSkippedSilently ==
  [][(AtRow /\ LacksRequired(df[index + 1]))
       => (CountersUnchanged /\ out' = out /\ store' = store)]_vars

\* C4: a row that passes the presence check and has a missing, NaN or
\* non-numeric coordinate is skipped with exactly one warning line: nothing
\* is upserted and no counter changes.
BadCoordinatesWarnOnce ==
  [][(/\ AtRow
      /\ ~LacksRequired(df[index + 1])
      /\ BadCoordinate(df[index + 1].latitude) \/ BadCoordinate(df[index + 1].longitude))
       => (/\ CountersUnchanged
           /\ store' = store
           /\ out' = [out EXCEPT !.warning = @ + 1])]_vars

\* C5: the table holds at most one record per poi_id, and the name,
\* category, latitude, longitude and ratings of each record are those of the
\* last row upserted with that poi_id (the coordinates as the decimal field
\* stores them).
UpsertLastRowWins ==
  /\ \A i, j \in 1..Len(store) : store[i].poi_id = store[j].poi_id => i = j
  /\ \A r \in Records :
       LET row == last[r.poi_id]
       IN /\ row # NoRow
          /\ IntOf(row.poi_id) = OkInt(r.poi_id)
          /\ r.name = Strip(StrOf(row.name))
          /\ r.category = Strip(StrOf(row.category))
          /\ OkInt(r.latitude) = ToDecimal(FloatOf(row.latitude).v)
          /\ OkInt(r.longitude) = ToDecimal(FloatOf(row.longitude).v)
          /\ r.ratings = parse_ratings(Get(row, "ratings", ListC(<<>>)))

Upserts(row) == RowOutcome(<<>>, row).kind = "success"

\* C5 witness: both rows of a frame were upserted with the same poi_id and
\* different names, and the record has the name of the second.
OverwrittenByLaterRow ==
  /\ pc = "rows" /\ Len(df) = 2 /\ index = 2
  /\ Upserts(df[1]) /\ Upserts(df[2])
  /\ IntOf(df[1].poi_id) = IntOf(df[2].poi_id)
  /\ Strip(StrOf(df[1].name)) # Strip(StrOf(df[2].name))
  /\ \E r \in Records : r.poi_id = IntOf(df[2].poi_id).v /\ r.name = Strip(StrOf(df[2].name))

\* C6: when the same file is imported twice in a row, the table after the
\* second import is the table after the first, and the second import counts
\* the same successes.
ImportTwiceIsIdempotent ==
  (pc = "rows" /\ index = Len(df) /\ prev.valid)
    => (store = prev.store /\ success_count = prev.success)

\* C6 witness: the second import of a two-row frame is over, it upserted
\* rows, and a record of the table has ratings.
SecondImportDone ==
  /\ pc = "rows" /\ index = Len(df) /\ prev.valid
  /\ Len(df) = 2 /\ success_count >= 1
  /\ \E r \in Records : r.ratings # <<>>

FileErrors == {"missing", "corrupt", "unsupported"}

\* C7: a path that cannot be read or decoded, or has an unsupported
\* extension, gets exactly one error line and no summary line, leaves the
\* table unchanged, and the loop of handle goes on with the paths after it.
FileErrorSkipsOnlyThatFile ==
  [][(pc = "files" /\ file_paths # <<>> /\ file_status' \in FileErrors)
       => (/\ store' = store
           /\ out' = [NoOut EXCEPT !.file_error = 1]
           /\ pc' = "files"
           /\ file_paths' = Tail(file_paths))]_vars

\* C7 witness: a file-level error has just been reported, the table holds
\* records and there are paths left.
FileErrorThenNextFile ==
  /\ pc = "files" /\ file_status \in FileErrors /\ out.file_error = 1
  /\ file_paths # <<>> /\ store # <<>>

\* C8: in a run with --reset every record of the table was upserted by this
\* run; in any run the records that were there at its start and whose poi_id
\* no row has upserted are still there, unchanged.
ResetClearsOthersPersist ==
  pc # "idle" =>
    /\ reset => \A r \in Records : r.poi_id \in touched
    /\ \A k \in 1..Len(prior) : prior[k].poi_id \notin touched /\ prior[k] \in Records

\* C8 witness: a run without --reset is over, it upserted some poi_id and a
\* record from before the run has another one.
UntouchedRecordKept ==
  /\ pc = "files" /\ file_paths = <<>> /\ ~reset
  /\ touched # {} /\ prior # <<>>

\* ---- C9
CommaCuts(s) == {0, Len(s) + 1} \cup {i \in 1..Len(s) : s[i] = ","}

NextCut(s, a) == CHOOSE b \in CommaCuts(s) : b > a /\ \A c \in CommaCuts(s) : c > a => b <= c

RECURSIVE PiecesFrom(_, _)
PiecesFrom(s, a) ==
  LET b == NextCut(s, a)
  IN <<SubSeq(s, a + 1, b - 1)>> \o (IF b = Len(s) + 1 THEN <<>> ELSE PiecesFrom(s, b))

Inked(s) == {i \in 1..Len(s) : s[i] # " "}

Trimmed(s) ==
  IF Inked(s) = {} THEN <<>>
  ELSE SubSeq(s, CHOOSE i \in Inked(s) : \A j \in Inked(s) : i <= j,
                 CHOOSE i \in Inked(s) : \A j \in Inked(s) : i >= j)

InBraces(s) ==
  IF Len(s) >= 2 /\ s[1] = "{" /\ s[Len(s)] = "}" THEN SubSeq(s, 2, Len(s) - 1) ELSE s

\* the comma-separated pieces of the text inside the braces, trimmed, the
\* empty ones left out
TextPieces(s) ==
  LET ps == PiecesFrom(InBraces(Trimmed(s)), 0)
  IN NonEmpty([i \in 1..Len(ps) |-> Trimmed(ps[i])])

Numeric(piece) == FloatOfStr(piece).ok

RECURSIVE NumericValues(_)
NumericValues(ps) ==
  IF ps = <<>> THEN <<>>
  ELSE IF Numeric(Head(ps)) THEN <<FloatOfStr(Head(ps)).v>> \o NumericValues(Tail(ps))
  ELSE NumericValues(Tail(ps))

\* C9 as stated: parse_ratings on a string returns the floats of the numeric
\* pieces in order, the non-numeric pieces dropped; "{1.0, 2.5, bad, 3}"
\* gives [1.0, 2.5, 3.0].
ParsedKeepsNumericPieces ==
  parsed.done =>
    /\ parsed.v = NumericValues(TextPieces(ratings_data))
    /\ ratings_data = BracedRatings => parsed.v = <<Flt(1, 0), Flt(25, 1), Flt(3, 0)>>

\* C9 amended: parse_ratings on a string returns the floats of all the
\* pieces in order when every piece is numeric, and the empty sequence as
\* soon as one piece is not; "{1.0, 2.5, bad, 3}" gives [].
ParsedAllPiecesOrNothing ==
  parsed.done =>
    /\ parsed.v = IF \A i \in 1..Len(TextPieces(ratings_data)) : Numeric(TextPieces(ratings_data)[i])
                  THEN NumericValues(TextPieces(ratings_data))
                  ELSE <<>>
    /\ ratings_data = BracedRatings => parsed.v = <<>>

\* C9 witness: "{1.0, 2.5, bad, 3}" has been parsed, to nothing.
ExampleParsedToNothing ==
  parsed.done /\ ratings_data = BracedRatings /\ parsed.v = <<>>

\* ---- C10
Tally == success_count + duplicate_count + error_count

\* the row passes the presence check and then int(poi_id) or the lookup of a
\* coordinate column raises
RaisesInRow(row) ==
  /\ ~IsMissing(Get(row, "poi_id", NoneC))
  /\ ~IsMissing(Get(row, "name", NoneC))
  /\ ~IsMissing(Get(row, "category", NoneC))
  /\ ~IntOf(row.poi_id).ok \/ row.latitude.t = "absent" \/ row.longitude.t = "absent"

====
